---- MODULE Spec2Model ----
(***************************************************************************)
(* A model of the typography plugin: the text layer type (schema,         *)
(* createDefault, render, renderSVG, validate) and the raster renderer    *)
(* renderText.                                                            *)
(*                                                                        *)
(* JavaScript values are tagged records.  A string is the sequence of its *)
(* characters, so that split and replace work on characters.  A number is *)
(* a fixed-point count of tenths (1.2 is 12, 48 is 480); NaN is a value  *)
(* of its own.  A template literal is the tuple of the strings its       *)
(* interpolated values convert to.                                        *)
(***************************************************************************)
EXTENDS Integers, Sequences, FiniteSets

VARIABLES
    properties,   \* the LayerProperties mapping handed to the operation
    bounds,       \* the LayerBounds rectangle handed to the operation
    ctx,          \* the paint attributes of the drawing surface
    calls,        \* the method calls recorded on the surface, in order
    op,           \* the operation that has run: "none" before any
    threw,        \* whether the operation ended by throwing
    ret,          \* what the operation returned
    heap,         \* the mappings allocated by createDefault, by reference
    results,      \* the reference each createDefault call returned
    mutated,      \* per createDefault call, the keys its caller has written
    layers,       \* the host's layer store: the layer held under each id
    events,       \* the calls the latest tool call made on its context, in order
    tool,         \* the latest tool call: its name, its input and its result
    ncalls        \* how many tool calls have been made

vars == <<properties, bounds, ctx, calls, op, threw, ret, heap, results, mutated,
          layers, events, tool, ncalls>>

renderVars == <<properties, bounds, ctx, calls, op, threw, ret>>
heapVars == <<heap, results, mutated>>
toolVars == <<layers, events, tool, ncalls>>

---------------------------------------------------------------------------
(* JavaScript values *)

Undefined == [t |-> "undefined", n |-> 0, s |-> <<>>, b |-> FALSE]
Null == [t |-> "null", n |-> 0, s |-> <<>>, b |-> FALSE]
NaN == [t |-> "NaN", n |-> 0, s |-> <<>>, b |-> FALSE]
Num(k) == [t |-> "number", n |-> k, s |-> <<>>, b |-> FALSE]
Str(cs) == [t |-> "string", n |-> 0, s |-> cs, b |-> FALSE]
Bool(x) == [t |-> "boolean", n |-> 0, s |-> <<>>, b |-> x]

\* A whole number k, in tenths.
N(k) == Num(k * 10)

\* typeof v
TypeOf(v) ==
    CASE v.t = "NaN" -> "number"
      [] v.t = "null" -> "object"
      [] OTHER -> v.t

\* a ?? d
Nullish(a, d) == IF a.t \in {"undefined", "null"} THEN d ELSE a

\* The truthiness of v, as in !v, v && w and if (v).
ToBoolean(v) ==
    CASE v.t = "boolean" -> v.b
      [] v.t = "number" -> v.n # 0
      [] v.t = "string" -> Len(v.s) > 0
      [] OTHER -> FALSE

DigitChars == <<"0", "1", "2", "3", "4", "5", "6", "7", "8", "9">>

IsDigit(c) == \E i \in 1..10 : DigitChars[i] = c

DigitValue(c) == (CHOOSE i \in 1..10 : DigitChars[i] = c) - 1

RECURSIVE DigitsValue(_)
DigitsValue(cs) ==
    IF cs = <<>> THEN 0
    ELSE DigitsValue(SubSeq(cs, 1, Len(cs) - 1)) * 10 + DigitValue(cs[Len(cs)])

\* ToNumber of a string: the empty string is 0, a string of decimal digits is
\* its value, and every other string of the inputs drawn here is NaN.
StringToNumber(cs) ==
    IF \A i \in 1..Len(cs) : IsDigit(cs[i]) THEN N(DigitsValue(cs)) ELSE NaN

\* ToNumber(v), the conversion applied by *, / and >.
ToNumber(v) ==
    CASE v.t = "number" -> v
      [] v.t = "boolean" -> IF v.b THEN N(1) ELSE N(0)
      [] v.t = "null" -> N(0)
      [] v.t = "string" -> StringToNumber(v.s)
      [] OTHER -> NaN

RECURSIVE Digits(_)
Digits(k) ==
    IF k < 10 THEN <<DigitChars[k + 1]>>
    ELSE Digits(k \div 10) \o <<DigitChars[(k % 10) + 1]>>

\* Number.prototype.toString of a count of tenths.
NumberToString(k) ==
    LET a == IF k < 0 THEN -k ELSE k
        whole == Digits(a \div 10)
        frac == IF a % 10 = 0 THEN <<>> ELSE <<".">> \o Digits(a % 10)
    IN  (IF k < 0 THEN <<"-">> ELSE <<>>) \o whole \o frac

\* JsToString(v), the conversion applied by + when an operand is a string.
JsToString(v) ==
    CASE v.t = "string" -> v.s
      [] v.t = "number" -> NumberToString(v.n)
      [] v.t = "NaN" -> <<"N", "a", "N">>
      [] v.t = "boolean" -> IF v.b THEN <<"t", "r", "u", "e">>
                                    ELSE <<"f", "a", "l", "s", "e">>
      [] v.t = "null" -> <<"n", "u", "l", "l">>
      [] OTHER -> <<"u", "n", "d", "e", "f", "i", "n", "e", "d">>

\* a + b: concatenation when an operand is a string, else the sum of numbers.
JsAdd(a, b) ==
    IF a.t = "string" \/ b.t = "string" THEN Str(JsToString(a) \o JsToString(b))
    ELSE LET x == ToNumber(a)
             y == ToNumber(b)
         IN  IF x.t = "NaN" \/ y.t = "NaN" THEN NaN ELSE Num(x.n + y.n)

\* a * b.  The product of two counts of tenths is a count of hundredths; the
\* numbers drawn here keep it a whole count of tenths.
JsMul(a, b) ==
    LET x == ToNumber(a)
        y == ToNumber(b)
    IN  IF x.t = "NaN" \/ y.t = "NaN" THEN NaN ELSE Num((x.n * y.n) \div 10)

\* a / 2
JsHalf(a) ==
    LET x == ToNumber(a)
    IN  IF x.t = "NaN" THEN NaN ELSE Num(x.n \div 2)

\* a > b, a < b on a number b: false when either side is NaN.
JsGreater(a, b) ==
    LET x == ToNumber(a)
        y == ToNumber(b)
    IN  x.t # "NaN" /\ y.t # "NaN" /\ x.n > y.n

JsLess(a, b) == JsGreater(b, a)

\* a === b
StrictEquals(a, b) == a.t # "NaN" /\ a = b

\* properties.key: undefined when the mapping has no such key.
Get(m, k) == IF k \in DOMAIN m THEN m[k] ELSE Undefined

\* m[k] = v
Assign(m, k, v) == [j \in DOMAIN m \cup {k} |-> IF j = k THEN v ELSE m[j]]

---------------------------------------------------------------------------
(* String literals of the source *)

sEmpty == Str(<<>>)
sHelloWorld == Str(<<"H", "e", "l", "l", "o", " ", "W", "o", "r", "l", "d">>)
sInter == Str(<<"I", "n", "t", "e", "r">>)
s400 == Str(<<"4", "0", "0">>)
s700 == Str(<<"7", "0", "0">>)
sNormal == Str(<<"n", "o", "r", "m", "a", "l">>)
sWhite == Str(<<"#", "f", "f", "f", "f", "f", "f">>)
sBlack == Str(<<"#", "0", "0", "0", "0", "0", "0">>)
sLeft == Str(<<"l", "e", "f", "t">>)
sCenter == Str(<<"c", "e", "n", "t", "e", "r">>)
sRight == Str(<<"r", "i", "g", "h", "t">>)
sTop == Str(<<"t", "o", "p">>)
sShadow == Str(<<"r", "g", "b", "a", "(", "0", ",", "0", ",", "0", ",", "0", ".", "5", ")">>)
sRound == Str(<<"r", "o", "u", "n", "d">>)
sStart == Str(<<"s", "t", "a", "r", "t">>)
sMiddle == Str(<<"m", "i", "d", "d", "l", "e">>)
sEnd == Str(<<"e", "n", "d">>)

---------------------------------------------------------------------------
(* The property schema and createDefault *)

TEXT_PROPERTIES == <<
    [key |-> "text", type |-> "string", default |-> sHelloWorld],
    [key |-> "fontFamily", type |-> "select", default |-> sInter],
    [key |-> "fontSize", type |-> "number", default |-> N(48)],
    [key |-> "fontWeight", type |-> "select", default |-> s400],
    [key |-> "fontStyle", type |-> "select", default |-> sNormal],
    [key |-> "color", type |-> "color", default |-> sWhite],
    [key |-> "align", type |-> "select", default |-> sLeft],
    [key |-> "baseline", type |-> "select", default |-> sTop],
    [key |-> "lineHeight", type |-> "number", default |-> Num(12)],
    [key |-> "strokeEnabled", type |-> "boolean", default |-> Bool(FALSE)],
    [key |-> "strokeColor", type |-> "color", default |-> sBlack],
    [key |-> "strokeWidth", type |-> "number", default |-> N(2)],
    [key |-> "shadowEnabled", type |-> "boolean", default |-> Bool(FALSE)],
    [key |-> "shadowColor", type |-> "color", default |-> sShadow],
    [key |-> "shadowBlur", type |-> "number", default |-> N(4)],
    [key |-> "shadowOffsetX", type |-> "number", default |-> N(2)],
    [key |-> "shadowOffsetY", type |-> "number", default |-> N(2)] >>

\* The loop of createDefault from descriptor i on: props[schema.key] = schema.default.
RECURSIVE FillDefaults(_, _)
FillDefaults(props, i) ==
    IF i > Len(TEXT_PROPERTIES) THEN props
    ELSE FillDefaults(Assign(props, TEXT_PROPERTIES[i].key, TEXT_PROPERTIES[i].default),
                      i + 1)

\* The mapping createDefault builds, starting from {}.
createDefault == FillDefaults(<<>>, 1)

---------------------------------------------------------------------------
(* validate *)

TextError == [property |-> "text", message |-> "Text must be a string"]

FontSizeError ==
    [property |-> "fontSize",
     message |-> "Font size must be a number between 1 and 1000"]

FontWeightError ==
    [property |-> "fontWeight", message |-> "Font weight must be '400' or '700'"]

\* !properties.text
TextInvalidWhenFalsy(p) == ~ToBoolean(Get(p, "text"))

\* typeof properties.text !== "string"
TextInvalid(p) == TypeOf(Get(p, "text")) # "string"

\* typeof fontSize !== "number" || fontSize < 1 || fontSize > 1000
FontSizeInvalid(p) ==
    LET fontSize == Get(p, "fontSize")
    IN  \/ TypeOf(fontSize) # "number"
        \/ JsLess(fontSize, N(1))
        \/ JsGreater(fontSize, N(1000))

\* fontWeight !== "400" || fontWeight !== "700"
FontWeightInvalidOr(p) ==
    LET fontWeight == Get(p, "fontWeight")
    IN  ~StrictEquals(fontWeight, s400) \/ ~StrictEquals(fontWeight, s700)

\* fontWeight !== "400" && fontWeight !== "700"
FontWeightInvalid(p) ==
    LET fontWeight == Get(p, "fontWeight")
    IN  ~StrictEquals(fontWeight, s400) /\ ~StrictEquals(fontWeight, s700)

\* The errors array at the return statement.
ValidateErrors(p) ==
    (IF TextInvalid(p) THEN <<TextError>> ELSE <<>>)
        \o (IF FontSizeInvalid(p) THEN <<FontSizeError>> ELSE <<>>)
        \o (IF FontWeightInvalid(p) THEN <<FontWeightError>> ELSE <<>>)

\* validate(properties): errors.length > 0 ? errors : null
validate(p) ==
    LET errors == ValidateErrors(p)
    IN  IF Len(errors) > 0 THEN [isNull |-> FALSE, errors |-> errors]
        ELSE [isNull |-> TRUE, errors |-> <<>>]

---------------------------------------------------------------------------
(* The font registry *)

sSansSerif == "sans-serif"

BUILT_IN_FONTS == <<
    [family |-> sInter, weights |-> <<400, 700>>, category |-> "sans-serif"],
    [family |-> Str(<<"J", "e", "t", "B", "r", "a", "i", "n", "s", " ", "M", "o", "n", "o">>),
     weights |-> <<400>>, category |-> "monospace"],
    [family |-> Str(<<"G", "e", "o", "r", "g", "i", "a">>),
     weights |-> <<400, 700>>, category |-> "serif"],
    [family |-> Str(<<"A", "r", "i", "a", "l">>),
     weights |-> <<400, 700>>, category |-> "sans-serif"],
    [family |-> Str(<<"H", "e", "l", "v", "e", "t", "i", "c", "a">>),
     weights |-> <<400, 700>>, category |-> "sans-serif"],
    [family |-> Str(<<"T", "i", "m", "e", "s", " ", "N", "e", "w", " ", "R", "o", "m", "a", "n">>),
     weights |-> <<400, 700>>, category |-> "serif"],
    [family |-> Str(<<"C", "o", "u", "r", "i", "e", "r", " ", "N", "e", "w">>),
     weights |-> <<400, 700>>, category |-> "monospace"],
    [family |-> Str(<<"V", "e", "r", "d", "a", "n", "a">>),
     weights |-> <<400, 700>>, category |-> "sans-serif"] >>

FONT_FALLBACKS ==
    [c \in {"sans-serif", "monospace", "serif", "display"} |->
        CASE c = "sans-serif" ->
                "Inter, -apple-system, BlinkMacSystemFont, 'Segoe UI', sans-serif"
          [] c = "monospace" -> "'JetBrains Mono', 'SF Mono', 'Fira Code', monospace"
          [] c = "serif" -> "Georgia, 'Times New Roman', serif"
          [] OTHER -> "Inter, -apple-system, sans-serif"]

\* resolveFontStack without the lookup: every family taken as a custom one.
resolveFontStackNoLookup(family) == <<JsToString(family), sSansSerif>>

\* resolveFontStack(family): the template `'${family}', ${fallbacks}` as the pair
\* of the family, converted to a string, and the fallback chain.
resolveFontStack(family) ==
    LET found == {i \in 1..Len(BUILT_IN_FONTS) :
                     StrictEquals(BUILT_IN_FONTS[i].family, family)}
    IN  IF found = {} THEN <<JsToString(family), sSansSerif>>
        ELSE LET font == BUILT_IN_FONTS[CHOOSE i \in found : \A j \in found : i <= j]
             IN  <<JsToString(family),
                   IF font.category \in DOMAIN FONT_FALLBACKS
                   THEN FONT_FALLBACKS[font.category] ELSE sSansSerif>>

---------------------------------------------------------------------------
(* The drawing surface *)

\* The surface a caller hands in: every attribute still unset, no call recorded.
createMockCtx ==
    [font |-> <<>>, fillStyle |-> sEmpty, strokeStyle |-> sEmpty,
     textAlign |-> sEmpty, textBaseline |-> sEmpty, lineWidth |-> N(0),
     lineJoin |-> sEmpty, shadowColor |-> sEmpty, shadowBlur |-> N(0),
     shadowOffsetX |-> N(0), shadowOffsetY |-> N(0)]

Call(fn, args) == [fn |-> fn, args |-> args]

---------------------------------------------------------------------------
(* renderText *)

\* text.split("\n"): the pieces between line feeds, empty pieces kept.
RECURSIVE Split(_)
Split(cs) ==
    IF \A i \in 1..Len(cs) : cs[i] # "\n" THEN <<cs>>
    ELSE LET at == CHOOSE i \in 1..Len(cs) :
                       cs[i] = "\n" /\ \A j \in 1..(i - 1) : cs[j] # "\n"
         IN  <<SubSeq(cs, 1, at - 1)>> \o Split(SubSeq(cs, at + 1, Len(cs)))

\* (properties.text as string) ?? ""
ResolvedText(p) == Nullish(Get(p, "text"), sEmpty)

\* if (text === undefined) return
ReturnsEarlyOnUndefined(text) == text.t = "undefined"

\* if (!text) return
ReturnsEarly(text) == ~ToBoolean(text)

\* The styling properties after their ?? fallbacks.
ResolvedStyle(p) ==
    [fontSize |-> Nullish(Get(p, "fontSize"), N(48)),
     fontFamily |-> Nullish(Get(p, "fontFamily"), sInter),
     fontWeight |-> Nullish(Get(p, "fontWeight"), s400),
     fontStyle |-> Nullish(Get(p, "fontStyle"), sNormal),
     color |-> Nullish(Get(p, "color"), sWhite),
     align |-> Nullish(Get(p, "align"), sLeft),
     baseline |-> Nullish(Get(p, "baseline"), sTop),
     lineHeight |-> Nullish(Get(p, "lineHeight"), Num(12)),
     strokeEnabled |-> Nullish(Get(p, "strokeEnabled"), Bool(FALSE)),
     strokeColor |-> Nullish(Get(p, "strokeColor"), sBlack),
     strokeWidth |-> Nullish(Get(p, "strokeWidth"), N(2)),
     shadowEnabled |-> Nullish(Get(p, "shadowEnabled"), Bool(FALSE)),
     shadowColor |-> Nullish(Get(p, "shadowColor"), sShadow),
     shadowBlur |-> Nullish(Get(p, "shadowBlur"), N(4)),
     shadowOffsetX |-> Nullish(Get(p, "shadowOffsetX"), N(2)),
     shadowOffsetY |-> Nullish(Get(p, "shadowOffsetY"), N(2))]

\* The anchor x with the centre put at the right edge.
AnchorXCenterAtRight(align, b) ==
    IF StrictEquals(align, sCenter) \/ StrictEquals(align, sRight)
    THEN JsAdd(b.x, b.width)
    ELSE b.x

\* The anchor x of an alignment.
AnchorX(align, b) ==
    IF StrictEquals(align, sCenter) THEN JsAdd(b.x, JsHalf(b.width))
    ELSE IF StrictEquals(align, sRight) THEN JsAdd(b.x, b.width)
    ELSE b.x

\* const lineSpacing = fontSize
LineSpacingIsFontSize(st) == ToNumber(st.fontSize)

\* const lineSpacing = fontSize * lineHeight
LineSpacing(st) == JsMul(st.fontSize, st.lineHeight)

\* const y = bounds.y + i * lineSpacing
LineY(b, i, lineSpacing) == JsAdd(b.y, JsMul(N(i), lineSpacing))

\* strokeEnabled && strokeWidth > 0
StrokeWanted(st) == ToBoolean(st.strokeEnabled) /\ JsGreater(st.strokeWidth, N(0))

\* The surface after the attribute writes that come before the loop.
SetUp(c, st) ==
    LET c1 == [c EXCEPT !.font = <<JsToString(st.fontStyle), JsToString(st.fontWeight),
                                   JsToString(st.fontSize),
                                   resolveFontStack(st.fontFamily)>>,
                        !.textAlign = st.align,
                        !.textBaseline = st.baseline]
    IN  IF ToBoolean(st.shadowEnabled)
        THEN [c1 EXCEPT !.shadowColor = st.shadowColor,
                        !.shadowBlur = st.shadowBlur,
                        !.shadowOffsetX = st.shadowOffsetX,
                        !.shadowOffsetY = st.shadowOffsetY]
        ELSE c1

\* One turn of the loop with the fill issued before the stroke.
DrawLineFillFirst(acc, line, i, x, b, st) ==
    LET y == LineY(b, i, LineSpacing(st))
        filled ==
            [ctx |-> [acc.ctx EXCEPT !.fillStyle = st.color],
             calls |-> Append(acc.calls, Call("fillText", <<Str(line), x, y>>))]
    IN  IF StrokeWanted(st)
        THEN [ctx |-> [filled.ctx EXCEPT !.strokeStyle = st.strokeColor,
                                         !.lineWidth = st.strokeWidth,
                                         !.lineJoin = sRound],
              calls |-> Append(filled.calls, Call("strokeText", <<Str(line), x, y>>))]
        ELSE filled

\* One turn of the loop: the surface and the calls after line i (0-based).
DrawLine(acc, line, i, x, b, st) ==
    LET y == LineY(b, i, LineSpacing(st))
        stroked ==
            IF StrokeWanted(st)
            THEN [ctx |-> [acc.ctx EXCEPT !.strokeStyle = st.strokeColor,
                                          !.lineWidth = st.strokeWidth,
                                          !.lineJoin = sRound],
                  calls |-> Append(acc.calls, Call("strokeText", <<Str(line), x, y>>))]
            ELSE acc
    IN  [ctx |-> [stroked.ctx EXCEPT !.fillStyle = st.color],
         calls |-> Append(stroked.calls, Call("fillText", <<Str(line), x, y>>))]

\* The loop from line i (0-based) on.
RECURSIVE DrawLines(_, _, _, _, _, _)
DrawLines(acc, lines, i, x, b, st) ==
    IF i >= Len(lines) THEN acc
    ELSE DrawLines(DrawLine(acc, lines[i + 1], i, x, b, st), lines, i + 1, x, b, st)

\* renderText(properties, ctx, bounds): the surface and the calls it leaves, and
\* whether it threw.  text.split is not a function unless text is a string.
renderText(p, c, b) ==
    LET text == ResolvedText(p)
        st == ResolvedStyle(p)
    IN  IF ReturnsEarly(text) THEN [ctx |-> c, calls |-> <<>>, threw |-> FALSE]
        ELSE LET saved == <<Call("save", <<>>)>>
                 c1 == SetUp(c, st)
                 x == AnchorX(st.align, b)
             IN  IF TypeOf(text) # "string"
                 THEN [ctx |-> c1, calls |-> saved, threw |-> TRUE]
                 ELSE LET drawn == DrawLines([ctx |-> c1, calls |-> saved],
                                             Split(text.s), 0, x, b, st)
                      IN  [ctx |-> drawn.ctx,
                           calls |-> Append(drawn.calls, Call("restore", <<>>)),
                           threw |-> FALSE]

---------------------------------------------------------------------------
(* renderSVG *)

\* s.replace(/c/g, by) for a single character c.
RECURSIVE ReplaceAll(_, _, _)
ReplaceAll(cs, c, by) ==
    IF cs = <<>> THEN <<>>
    ELSE (IF cs[1] = c THEN by ELSE <<cs[1]>>) \o ReplaceAll(Tail(cs), c, by)

\* text.replace(/</g, "&lt;").replace(/>/g, "&gt;").replace(/&/g, "&amp;")
EscapeAmpersandLast(cs) ==
    ReplaceAll(ReplaceAll(ReplaceAll(cs, "<", <<"&", "l", "t", ";">>),
                          ">", <<"&", "g", "t", ";">>),
               "&", <<"&", "a", "m", "p", ";">>)

\* text.replace(/&/g, "&amp;").replace(/</g, "&lt;").replace(/>/g, "&gt;")
Escape(cs) ==
    ReplaceAll(ReplaceAll(ReplaceAll(cs, "&", <<"&", "a", "m", "p", ";">>),
                          "<", <<"&", "l", "t", ";">>),
               ">", <<"&", "g", "t", ";">>)

\* The text-anchor keyword of an alignment.
TextAnchor(align) ==
    IF StrictEquals(align, sCenter) THEN sMiddle
    ELSE IF StrictEquals(align, sRight) THEN sEnd
    ELSE sStart

\* The x attribute with the right edge used for "center" too.
SvgXCenterAtRight(align, b) ==
    IF StrictEquals(align, sCenter) \/ StrictEquals(align, sRight)
    THEN JsAdd(b.x, b.width)
    ELSE b.x

\* let x = bounds.x, reassigned in the branches for "center" and "right".
SvgX(align, b) ==
    IF StrictEquals(align, sCenter) THEN JsAdd(b.x, JsHalf(b.width))
    ELSE IF StrictEquals(align, sRight) THEN JsAdd(b.x, b.width)
    ELSE b.x

\* renderSVG(properties, bounds): the <text> element as the strings of its
\* attribute values and its content, and whether it threw.  text.replace is not a function unless text is
\* a string.
renderSVG(p, b) ==
    LET text == ResolvedText(p)
        st == ResolvedStyle(p)
    IN  IF TypeOf(text) # "string" THEN [threw |-> TRUE, svg |-> <<>>]
        ELSE [threw |-> FALSE,
              svg |-> <<[x |-> JsToString(SvgX(st.align, b)),
                         y |-> JsToString(JsAdd(b.y, st.fontSize)),
                         fontFamily |-> JsToString(st.fontFamily),
                         fontSize |-> JsToString(st.fontSize),
                         fontWeight |-> JsToString(st.fontWeight),
                         fontStyle |-> JsToString(st.fontStyle),
                         fill |-> JsToString(st.color),
                         textAnchor |-> JsToString(TextAnchor(st.align)),
                         content |-> Escape(text.s)]>>]

---------------------------------------------------------------------------
(* The inputs: mappings and rectangles a caller can hand in *)

\* How many keys of createDefault() a caller overrides or leaves out.
MaxOverrides == 2

\* A key left out of the mapping.
Absent == [t |-> "absent", n |-> 0, s |-> <<>>, b |-> FALSE]

\* The values tried under each key, of the right and of the wrong type.
PropInputs(k) ==
    CASE k = "text" ->
            {Absent, Null, N(42), Bool(TRUE), sEmpty, Str(<<"a">>),
             Str(<<"a", "\n", "b">>), Str(<<"\n", "b", "\n">>),
             Str(<<"<", "a", ">", "&">>)}
      [] k = "fontSize" ->
            {Absent, N(24), N(0), N(1001), NaN, Str(<<"b", "i", "g">>),
             Str(<<"2", "4">>), N(1), N(1000), N(-5), Num(5), Num(10001)}
      [] k = "fontFamily" ->
            {Absent, Str(<<"G", "e", "o", "r", "g", "i", "a">>),
             Str(<<"C", "o", "m", "i", "c">>), N(7)}
      [] k = "fontWeight" -> {Absent, s700, Str(<<"9", "9", "9">>), N(400)}
      [] k = "fontStyle" -> {Absent, Str(<<"i", "t", "a", "l", "i", "c">>)}
      [] k = "color" -> {Absent, Str(<<"#", "f", "0", "0">>), N(0)}
      [] k = "align" ->
            {Absent, sCenter, sRight, Str(<<"j", "u", "s", "t", "i", "f", "y">>), N(1)}
      [] k = "baseline" -> {Absent, sMiddle}
      [] k = "lineHeight" -> {Absent, Num(15), N(0), Str(<<"x">>)}
      [] k = "strokeEnabled" -> {Absent, Bool(TRUE), Str(<<"n", "o">>)}
      [] k = "strokeColor" -> {Absent, Str(<<"#", "f", "0", "0">>)}
      [] k = "strokeWidth" -> {Absent, N(3), N(0), N(-1), NaN, Str(<<"3">>)}
      [] k = "shadowEnabled" -> {Absent, Bool(TRUE)}
      [] k = "shadowColor" -> {Absent, sBlack}
      [] k = "shadowBlur" -> {Absent, N(10)}
      [] k = "shadowOffsetX" -> {Absent, N(5)}
      [] OTHER -> {Absent, N(5)}

SchemaKeys == {TEXT_PROPERTIES[i].key : i \in 1..Len(TEXT_PROPERTIES)}

\* { ...p, [k]: v }, or p without the key k.
Override(p, k, v) ==
    IF v = Absent THEN [j \in DOMAIN p \ {k} |-> p[j]] ELSE Assign(p, k, v)

\* Every override of one key: the place of its descriptor and the value.
OverridePairs ==
    UNION {{<<i, v>> : v \in PropInputs(TEXT_PROPERTIES[i].key)} :
               i \in 1..Len(TEXT_PROPERTIES)}

\* The lists of at most n overrides, each of a key later in the schema than the
\* one before it.
RECURSIVE OverrideLists(_)
OverrideLists(n) ==
    IF n = 0 THEN {<<>>}
    ELSE LET L == OverrideLists(n - 1)
             longer == {lq \in L \X OverridePairs :
                           /\ Len(lq[1]) = n - 1
                           /\ (n = 1 \/ lq[1][n - 1][1] < lq[2][1])}
         IN  L \cup {Append(lq[1], lq[2]) : lq \in longer}

\* { ...p, k1: v1, k2: v2, ... }
RECURSIVE ApplyOverrides(_, _)
ApplyOverrides(p, l) ==
    IF l = <<>> THEN p
    ELSE ApplyOverrides(Override(p, TEXT_PROPERTIES[l[1][1]].key, l[1][2]), Tail(l))

Bounds(x, y, width) ==
    [x |-> N(x), y |-> N(y), width |-> N(width), height |-> N(100)]

BoundsInputs == {Bounds(10, 20, 400), Bounds(0, 0, 7), Bounds(-5, 3, 0)}

\* The host before any tool call: an empty layer store, nothing called.
NoToolCalls ==
    /\ layers = [k \in {} |-> Undefined]
    /\ events = <<>>
    /\ tool = [name |-> "none", input |-> [k \in {} |-> Undefined], result |-> <<>>]
    /\ ncalls = 0

---------------------------------------------------------------------------
(* The operations of the layer type, each applied to the inputs drawn *)

Init ==
    /\ \E l \in OverrideLists(MaxOverrides) :
           properties = ApplyOverrides(createDefault, l)
    /\ bounds \in BoundsInputs
    /\ ctx = createMockCtx
    /\ calls = <<>>
    /\ op = "none"
    /\ threw = FALSE
    /\ ret = <<>>
    /\ heap = <<>>
    /\ results = <<>>
    /\ mutated = <<>>
    /\ NoToolCalls

\* textLayerType.render(properties, ctx, bounds, resources)
Render ==
    /\ op = "none"
    /\ LET r == renderText(properties, ctx, bounds)
       IN  /\ ctx' = r.ctx
           /\ calls' = r.calls
           /\ threw' = r.threw
    /\ op' = "render"
    /\ UNCHANGED <<properties, bounds, ret, heapVars, toolVars>>

\* textLayerType.renderSVG(properties, bounds, resources)
RenderSVG ==
    /\ op = "none"
    /\ LET r == renderSVG(properties, bounds)
       IN  /\ threw' = r.threw
           /\ ret' = r.svg
    /\ op' = "renderSVG"
    /\ UNCHANGED <<properties, bounds, ctx, calls, heapVars, toolVars>>

\* textLayerType.validate(properties)
Validate ==
    /\ op = "none"
    /\ ret' = <<validate(properties)>>
    /\ threw' = FALSE
    /\ op' = "validate"
    /\ UNCHANGED <<properties, bounds, ctx, calls, heapVars, toolVars>>

Next == Render \/ RenderSVG \/ Validate

Spec == Init /\ [][Next]_vars

---------------------------------------------------------------------------
(* createDefault as callers see it: every call returns a reference to a    *)
(* mapping, and callers write through the references they hold             *)

\* How many times createDefault is called.
MaxCalls == 2

\* How many property writes the callers make in all.
MaxWrites == 2

\* A mapping kept by the module and handed to every caller.
SharedRef(h) == 1

\* const props = {}: a mapping of its own, at a reference no earlier call holds.
NewRef(h) == Len(h) + 1

\* The heap with the loop of createDefault run on the mapping at ref: a mapping
\* that is new starts as {}.
FillAt(h, ref) ==
    IF ref \in DOMAIN h THEN [h EXCEPT ![ref] = FillDefaults(h[ref], 1)]
    ELSE Append(h, FillDefaults(<<>>, 1))

InitDefaults ==
    /\ properties = createDefault
    /\ bounds = Bounds(10, 20, 400)
    /\ ctx = createMockCtx
    /\ calls = <<>>
    /\ op = "none"
    /\ threw = FALSE
    /\ ret = <<>>
    /\ heap = <<>>
    /\ results = <<>>
    /\ mutated = <<>>
    /\ NoToolCalls

\* textLayerType.createDefault()
CallCreateDefault ==
    /\ Len(results) < MaxCalls
    /\ LET ref == NewRef(heap)
       IN  /\ heap' = FillAt(heap, ref)
           /\ results' = Append(results, ref)
    /\ mutated' = Append(mutated, {})
    /\ UNCHANGED <<renderVars, toolVars>>

\* The keys the callers write: some of the schema's, and one that is not.
WritableKeys == {"text", "fontSize", "fontWeight", "strokeEnabled", "shadowOffsetY", "extra"}

\* The writes the callers have made in all.
Writes == {w \in (1..Len(mutated)) \X WritableKeys : w[2] \in mutated[w[1]]}

\* The values a caller writes into a mapping it was handed.
WriteInputs == {Absent, Null, N(7)}

\* The caller of call c writes key k of the mapping it was handed (or deletes it).
Mutate(c, k, v) ==
    /\ Cardinality(Writes) < MaxWrites
    /\ k \notin mutated[c]
    /\ heap' = [heap EXCEPT ![results[c]] = Override(@, k, v)]
    /\ mutated' = [mutated EXCEPT ![c] = @ \cup {k}]
    /\ UNCHANGED <<results, renderVars, toolVars>>

NextDefaults ==
    \/ CallCreateDefault
    \/ \E c \in 1..Len(results), k \in WritableKeys, v \in WriteInputs :
           Mutate(c, k, v)

SpecDefaults == InitDefaults /\ [][NextDefaults]_vars

---------------------------------------------------------------------------
(* renderSVG over the texts that hold markup characters *)

\* The longest text drawn.
MaxTextLen == 4

\* The characters of the texts: the three that are escaped, and the letters
\* and the semicolon that spell an entity.
TextChars == {"&", "<", ">", "l", "t", ";", "a"}

\* Every text of at most n characters.
Texts(n) == UNION {[1..k -> TextChars] : k \in 0..n}

InitEscape ==
    /\ \E cs \in Texts(MaxTextLen) : properties = Assign(createDefault, "text", Str(cs))
    /\ bounds = Bounds(10, 20, 400)
    /\ ctx = createMockCtx
    /\ calls = <<>>
    /\ op = "none"
    /\ threw = FALSE
    /\ ret = <<>>
    /\ heap = <<>>
    /\ results = <<>>
    /\ mutated = <<>>
    /\ NoToolCalls

NextEscape == RenderSVG

SpecEscape == InitEscape /\ [][NextEscape]_vars

---------------------------------------------------------------------------
(* resolveFontStack over family names *)

\* The longest family name spelled out of FamilyChars.
MaxFamilyLen == 5

\* The letters of "Inter", in both cases of its first.
FamilyChars == {"I", "i", "n", "t", "e", "r"}

\* The family names drawn: the built-in ones, two of them in another case, and
\* every name of at most n letters.
FamilyInputs(n) ==
    {BUILT_IN_FONTS[i].family : i \in 1..Len(BUILT_IN_FONTS)}
        \cup {Str(<<"g", "e", "o", "r", "g", "i", "a">>), Str(<<"A", "R", "I", "A", "L">>)}
        \cup {Str(cs) : cs \in UNION {[1..k -> FamilyChars] : k \in 0..n}}

InitFonts ==
    /\ \E family \in FamilyInputs(MaxFamilyLen) :
           properties = Assign(createDefault, "fontFamily", family)
    /\ bounds = Bounds(10, 20, 400)
    /\ ctx = createMockCtx
    /\ calls = <<>>
    /\ op = "none"
    /\ threw = FALSE
    /\ ret = <<>>
    /\ heap = <<>>
    /\ results = <<>>
    /\ mutated = <<>>
    /\ NoToolCalls

\* resolveFontStack(fontFamily)
ResolveFontStack ==
    /\ op = "none"
    /\ ret' = <<resolveFontStack(Get(properties, "fontFamily"))>>
    /\ threw' = FALSE
    /\ op' = "resolveFontStack"
    /\ UNCHANGED <<properties, bounds, ctx, calls, heapVars, toolVars>>

NextFonts == ResolveFontStack

SpecFonts == InitFonts /\ [][NextFonts]_vars

---------------------------------------------------------------------------
(* The style tools and the host context they are handed                    *)
(*                                                                         *)
(* A layer id is a string whose characters are not looked at: it is one    *)
(* element long, or empty.                                                 *)

sTextType == "typography:text"

sLayer1 == Str(<<"layer-1">>)
sLayer2 == Str(<<"layer-2">>)
sMissing == Str(<<"missing">>)
sHello == Str(<<"H", "e", "l", "l", "o">>)
sNewText == Str(<<"N", "e", "w", " ", "t", "e", "x", "t">>)
sRed == Str(<<"#", "f", "f", "0", "0", "0", "0">>)

\* {}
EmptyMap == [k \in {} |-> Undefined]

\* { ...a, ...b }
Spread(a, b) ==
    [k \in DOMAIN a \cup DOMAIN b |-> IF k \in DOMAIN b THEN b[k] ELSE a[k]]

\* input[key] !== undefined
Supplied(input, k) == Get(input, k).t # "undefined"

\* The entries of input under the given keys that are not undefined, each put
\* under the name rename gives its key.
Patch(input, keys, rename) ==
    [k \in {rename[j] : j \in {i \in keys : Supplied(input, i)}} |->
        input[CHOOSE j \in keys : rename[j] = k]]

\* Keys kept under their own names.
Same(keys) == [k \in keys |-> k]

textResult(text) == [content |-> text, isError |-> Undefined]

errorResult(text) == [content |-> text, isError |-> Bool(TRUE)]

\* generateLayerId(): Date.now() and Math.random() make the id differ from every
\* id generated before; the clock is the count of tool calls made.
generateLayerId(now) == Str(<<"layer-">> \o Digits(now))

\* The layer the tests build, under a given id and type.
createMockLayer(id, type) ==
    [id |-> id, type |-> type, name |-> <<"T", "e", "s", "t", " ", "T", "e", "x", "t">>,
     visible |-> TRUE, locked |-> FALSE, opacity |-> N(1), blendMode |-> "normal",
     transform |-> [x |-> N(50), y |-> N(50), width |-> N(400), height |-> N(100),
                    rotation |-> N(0), scaleX |-> N(1), scaleY |-> N(1),
                    anchorX |-> N(0), anchorY |-> N(0)],
     properties |-> [text |-> sHello, fontFamily |-> sInter, fontSize |-> N(48),
                     fontWeight |-> s400, color |-> sWhite]]

\* a - b
JsSub(a, b) ==
    LET x == ToNumber(a)
        y == ToNumber(b)
    IN  IF x.t = "NaN" \/ y.t = "NaN" THEN NaN ELSE Num(x.n - y.n)

\* context.canvasWidth
canvasWidth == N(800)

\* context.layers.get(id) is not null
HasLayer(ls, id) == id \in DOMAIN ls

\* The two early returns every tool with a layerId starts with, the second one
\* left out.
LookupErrorNotFoundOnly(ls, layerId) ==
    IF ~HasLayer(ls, layerId)
    THEN <<errorResult(<<"Layer '", JsToString(layerId), "' not found.">>)>>
    ELSE <<>>

\* The two early returns every tool with a layerId starts with: the error
\* result, or nothing when the layer is there and is a text layer.
LookupError(ls, layerId) ==
    IF ~HasLayer(ls, layerId)
    THEN <<errorResult(<<"Layer '", JsToString(layerId), "' not found.">>)>>
    ELSE IF ls[layerId].type # sTextType
    THEN <<errorResult(<<"Layer '", JsToString(layerId), "' is not a text layer.">>)>>
    ELSE <<>>

\* What a handler leaves: the store, the calls made on the context, the result.
Outcome(ls, ev, res) == [layers |-> ls, events |-> ev, result |-> res]

\* The patch of set_text without the text.
SetTextUpdatesStyleOnly(input) ==
    Patch(input, {"fontSize", "fontFamily", "color", "align"},
          Same({"fontSize", "fontFamily", "color", "align"}))

\* const updates = { text }, and each of the four style inputs that is supplied.
SetTextUpdates(input) ==
    Spread([text |-> Get(input, "text")],
           Patch(input, {"fontSize", "fontFamily", "color", "align"},
                 Same({"fontSize", "fontFamily", "color", "align"})))

\* The calls of an update with the notification sent first.
UpdateEventsEmitFirst(layerId, updates, more) ==
    <<Call("emitChange", <<"layer-updated">>),
      Call("updateProperties", <<layerId, updates>>)>> \o more

\* The calls of an update: context.layers.updateProperties(layerId, updates),
\* the further store calls of the handler, context.emitChange("layer-updated").
UpdateEvents(layerId, updates, more) ==
    <<Call("updateProperties", <<layerId, updates>>)>>
        \o more \o <<Call("emitChange", <<"layer-updated">>)>>

\* text.length > 20 ? text.slice(0, 20) + ellipsis : text
LayerName(text) ==
    IF Len(text.s) > 20 THEN SubSeq(text.s, 1, 20) \o <<"...">> ELSE text.s

\* The DesignLayer set_text builds when it is given no layerId.
NewLayer(id, input) ==
    LET props == Spread(createDefault, SetTextUpdates(input))
    IN  [id |-> id, type |-> sTextType, name |-> LayerName(Get(input, "text")),
         visible |-> TRUE, locked |-> FALSE, opacity |-> N(1), blendMode |-> "normal",
         transform |-> [x |-> Nullish(Get(input, "x"), N(50)),
                        y |-> Nullish(Get(input, "y"), N(50)),
                        width |-> JsSub(canvasWidth, N(100)),
                        height |-> JsMul(props.fontSize, N(2)),
                        rotation |-> N(0), scaleX |-> N(1), scaleY |-> N(1),
                        anchorX |-> N(0), anchorY |-> N(0)],
         properties |-> props]

\* setTextTool.handler(input, context).  The store is the one of the tests:
\* add puts the layer under its id, updateProperties and updateTransform only
\* record their call.
setText(input, ls, now) ==
    LET text == Get(input, "text")
        layerId == Get(input, "layerId")
    IN  IF ToBoolean(layerId)
        THEN IF LookupError(ls, layerId) # <<>>
             THEN Outcome(ls, <<>>, LookupError(ls, layerId)[1])
             ELSE LET moved ==
                          IF Supplied(input, "x") \/ Supplied(input, "y")
                          THEN <<Call("updateTransform",
                                      <<layerId, Patch(input, {"x", "y"}, Same({"x", "y"}))>>)>>
                          ELSE <<>>
                  IN  Outcome(ls, UpdateEvents(layerId, SetTextUpdates(input), moved),
                              textResult(<<"Updated text layer '", JsToString(layerId), "'.">>))
        ELSE LET id == generateLayerId(now)
                 layer == NewLayer(id, input)
             IN  Outcome(Assign(ls, id, layer),
                         <<Call("add", <<layer>>), Call("emitChange", <<"layer-added">>)>>,
                         textResult(<<"Created text layer '", JsToString(id),
                                      "' with text \"", JsToString(text), "\".">>))

StyleKeys ==
    {"fontFamily", "fontSize", "fontWeight", "fontStyle", "color", "lineHeight",
     "strokeEnabled", "strokeColor", "strokeWidth"}

\* applyTextStyleTool.handler(input, context)
applyTextStyle(input, ls) ==
    LET layerId == Get(input, "layerId")
        updates == Patch(input, StyleKeys, Same(StyleKeys))
    IN  IF LookupError(ls, layerId) # <<>>
        THEN Outcome(ls, <<>>, LookupError(ls, layerId)[1])
        ELSE IF DOMAIN updates = {}
        THEN Outcome(ls, <<>>, errorResult(<<"No style properties provided.">>))
        ELSE Outcome(ls, UpdateEvents(layerId, updates, <<>>),
                     textResult(<<"Applied style to text layer '",
                                  JsToString(layerId), "'.">>))

\* The property each input of set_text_shadow is written to.
ShadowKeys ==
    [enabled |-> "shadowEnabled", color |-> "shadowColor", blur |-> "shadowBlur",
     offsetX |-> "shadowOffsetX", offsetY |-> "shadowOffsetY"]

\* setTextShadowTool.handler(input, context)
setTextShadow(input, ls) ==
    LET layerId == Get(input, "layerId")
        updates == Patch(input, DOMAIN ShadowKeys, ShadowKeys)
    IN  IF LookupError(ls, layerId) # <<>>
        THEN Outcome(ls, <<>>, LookupError(ls, layerId)[1])
        ELSE LET enabled == Nullish(Get(input, "enabled"),
                                    Get(ls[layerId].properties, "shadowEnabled"))
             IN  Outcome(ls, UpdateEvents(layerId, updates, <<>>),
                         textResult(IF ToBoolean(enabled)
                                    THEN <<"Shadow configured on text layer '",
                                           JsToString(layerId), "'.">>
                                    ELSE <<"Shadow disabled on text layer '",
                                           JsToString(layerId), "'.">>))

\* listFontsTool.handler(input, context): a line for each built-in font.
listFonts(ls) ==
    Outcome(ls, <<>>,
            textResult(<<"Available fonts:">>
                \o [i \in 1..Len(BUILT_IN_FONTS) |->
                       <<BUILT_IN_FONTS[i].family.s, BUILT_IN_FONTS[i].weights,
                         BUILT_IN_FONTS[i].category>>]))

---------------------------------------------------------------------------
(* Tool calls in sequence on one context *)

\* How many tool calls are made on a context.
MaxToolCalls == 2

\* How many of its optional inputs a tool call supplies.
MaxSupplied == 2

\* The optional inputs of each tool, each with a value of the type its input
\* schema declares; 0 and false are supplied values too.
SetTextOptions == [x |-> N(0), y |-> N(200), fontSize |-> N(72), color |-> sRed]

StyleOptions == [fontSize |-> N(72), fontWeight |-> s700, strokeEnabled |-> Bool(TRUE)]

ShadowOptions == [enabled |-> Bool(FALSE), offsetY |-> N(0)]

\* The sets of at most n options a call supplies.
Choices(options, n) == {S \in SUBSET DOMAIN options : Cardinality(S) <= n}

\* The layerId a call is given: none, the empty string, the id of no layer, or
\* the id of a layer of the store.
LayerIdInputs(ls) == {Absent, sEmpty, sMissing} \cup DOMAIN ls

\* The input with the given layerId, the given text (set_text only) and the
\* options chosen.
Input(layerId, text, options, S) ==
    Spread(Spread(IF layerId = Absent THEN EmptyMap ELSE [layerId |-> layerId],
                  IF text = Absent THEN EmptyMap ELSE [text |-> text]),
           [k \in S |-> options[k]])

\* createMockContext([text layer, layer of another type])
MockStore ==
    Assign(Assign(EmptyMap, sLayer1, createMockLayer(sLayer1, sTextType)),
           sLayer2, createMockLayer(sLayer2, "filter:grain"))

InitTools ==
    /\ properties = createDefault
    /\ bounds = Bounds(10, 20, 400)
    /\ ctx = createMockCtx
    /\ calls = <<>>
    /\ op = "none"
    /\ threw = FALSE
    /\ ret = <<>>
    /\ heap = <<>>
    /\ results = <<>>
    /\ mutated = <<>>
    /\ (layers = EmptyMap \/ layers = MockStore)
    /\ events = <<>>
    /\ tool = [name |-> "none", input |-> EmptyMap, result |-> <<>>]
    /\ ncalls = 0

\* One tool call: the handler runs to its end on the context.
ToolCall(name, input, out) ==
    /\ ncalls < MaxToolCalls
    /\ ncalls' = ncalls + 1
    /\ tool' = [name |-> name, input |-> input, result |-> out.result]
    /\ events' = out.events
    /\ layers' = out.layers
    /\ UNCHANGED <<renderVars, heapVars>>

SetText ==
    \E id \in LayerIdInputs(layers), S \in Choices(SetTextOptions, MaxSupplied) :
        LET input == Input(id, sNewText, SetTextOptions, S)
        IN  ToolCall("set_text", input, setText(input, layers, ncalls + 1))

ApplyTextStyle ==
    \E id \in LayerIdInputs(layers), S \in Choices(StyleOptions, MaxSupplied) :
        LET input == Input(id, Absent, StyleOptions, S)
        IN  ToolCall("apply_text_style", input, applyTextStyle(input, layers))

SetTextShadow ==
    \E id \in LayerIdInputs(layers), S \in Choices(ShadowOptions, MaxSupplied) :
        LET input == Input(id, Absent, ShadowOptions, S)
        IN  ToolCall("set_text_shadow", input, setTextShadow(input, layers))

ListFonts ==
    \E input \in {EmptyMap} : ToolCall("list_fonts", input, listFonts(layers))

NextTools == SetText \/ ApplyTextStyle \/ SetTextShadow \/ ListFonts

SpecTools == InitTools /\ [][NextTools]_vars

---------------------------------------------------------------------------
(* What the claims read off a finished call *)

Rendered == op = "render"

RawText == Get(properties, "text")

\* The text is a string with at least one character.
TextIsNonEmptyString == RawText.t = "string" /\ RawText.s # <<>>

NamedCalls(fn) == SelectSeq(calls, LAMBDA c : c.fn = fn)

DrawCalls == SelectSeq(calls, LAMBDA c : c.fn \in {"strokeText", "fillText"})

LineFeeds(cs) == Cardinality({i \in 1..Len(cs) : cs[i] = "\n"})

RECURSIVE JoinLines(_)
JoinLines(ls) ==
    IF Len(ls) = 0 THEN <<>>
    ELSE IF Len(ls) = 1 THEN ls[1]
    ELSE ls[1] \o <<"\n">> \o JoinLines(Tail(ls))

\* A key that is missing, undefined or null.
Unset(k) == Get(properties, k).t \in {"undefined", "null"}

\* A numeric property as a count of tenths: its value when it is a finite
\* number, the documented fallback when it is unset.
TenthsOf(k, fallback) == IF Unset(k) THEN fallback ELSE Get(properties, k).n

FiniteNumberOrUnset(k) == Unset(k) \/ Get(properties, k).t = "number"

---------------------------------------------------------------------------
(* C1, C2: throwing, and the paint state a throwing call leaves acquired *)

\* C1: for every properties mapping and bounds, render and renderSVG complete
\* without throwing.  The code throws on a truthy text that is not a string.
C1_NeverThrows == op \in {"render", "renderSVG"} => ~threw

\* C2: when a render call ends, it has issued as many restore calls as save
\* calls, and every strokeText or fillText call lies between the save and the
\* restore.  The code leaves the save unmatched when text.split throws.
C2_SaveRestoreMatched ==
    Rendered =>
        /\ Len(NamedCalls("restore")) = Len(NamedCalls("save"))
        /\ \A i \in 1..Len(calls) :
               calls[i].fn \in {"strokeText", "fillText"} =>
                   /\ \E j \in 1..(i - 1) : calls[j].fn = "save"
                   /\ \E j \in (i + 1)..Len(calls) : calls[j].fn = "restore"

---------------------------------------------------------------------------
(* C3: empty text *)

\* C3: when the resolved text is the empty string (the text is "", or is
\* missing, undefined or null), a render issues no fillText, no strokeText, no
\* save and no restore, and leaves every paint attribute of the surface as it
\* was.
C3_EmptyTextUntouched ==
    (Rendered /\ (Unset("text") \/ RawText = sEmpty)) =>
        /\ ~threw
        /\ calls = <<>>
        /\ ctx = createMockCtx

C3_Witness == Rendered /\ RawText = sEmpty /\ calls = <<>>

---------------------------------------------------------------------------
(* C4: fallbacks for values of the wrong type *)

\* The typeof a value of each property has when it is of the right type.
DocumentedType(k) ==
    CASE k \in {"fontSize", "lineHeight", "strokeWidth", "shadowBlur",
                "shadowOffsetX", "shadowOffsetY"} -> "number"
      [] k \in {"strokeEnabled", "shadowEnabled"} -> "boolean"
      [] OTHER -> "string"

\* The fallback the specification documents for each property.
DocumentedFallback(k) ==
    CASE k = "text" -> sEmpty
      [] k = "fontSize" -> N(48)
      [] k = "fontFamily" -> sInter
      [] k = "fontWeight" -> s400
      [] k = "fontStyle" -> sNormal
      [] k = "color" -> sWhite
      [] k = "align" -> sLeft
      [] k = "baseline" -> sTop
      [] k = "lineHeight" -> Num(12)
      [] k = "strokeEnabled" -> Bool(FALSE)
      [] k = "strokeColor" -> sBlack
      [] k = "strokeWidth" -> N(2)
      [] k = "shadowEnabled" -> Bool(FALSE)
      [] k = "shadowColor" -> sShadow
      [] k = "shadowBlur" -> N(4)
      [] OTHER -> N(2)

\* The mapping with every absent or mistyped property replaced by its fallback.
WithFallbacks(p) ==
    [k \in SchemaKeys |->
        IF TypeOf(Get(p, k)) = DocumentedType(k) THEN Get(p, k)
        ELSE DocumentedFallback(k)]

\* C4: a render uses, for every property that is absent or of the wrong type,
\* the documented fallback: a render that returns leaves the surface and the
\* calls that a render of the mapping with those fallbacks filled in leaves.
\* The code falls back only for a missing, undefined or null value and uses a
\* mistyped one as it is.
C4_MistypedFallsBack ==
    (Rendered /\ ~threw) =>
        LET r == renderText(WithFallbacks(properties), createMockCtx, bounds)
        IN  /\ calls = r.calls
            /\ ctx = r.ctx

---------------------------------------------------------------------------
(* C5, C6, C7: the lines drawn *)

\* C5: for a non-empty text with n line feeds (fontSize and lineHeight finite
\* numbers, or unset and so 48 and 1.2), a render issues exactly n + 1 fillText
\* calls, whatever the width of the bounds; their texts are the lines of the
\* text in order, and line i (0-based) is drawn at
\* y = bounds.y + i * (fontSize * lineHeight).
C5_OneFillPerLine ==
    (/\ Rendered
     /\ TextIsNonEmptyString
     /\ FiniteNumberOrUnset("fontSize")
     /\ FiniteNumberOrUnset("lineHeight")) =>
        LET fills == NamedCalls("fillText")
            spacing == (TenthsOf("fontSize", 480) * TenthsOf("lineHeight", 12)) \div 10
        IN  /\ ~threw
            /\ Len(fills) = LineFeeds(RawText.s) + 1
            /\ JoinLines([i \in 1..Len(fills) |-> fills[i].args[1].s]) = RawText.s
            /\ \A i \in 1..Len(fills) :
                   fills[i].args[3] = Num(bounds.y.n + (i - 1) * spacing)

\* Two lines at line height 1.5 and font size 48: the second at y = 20 + 72.
C5_Witness ==
    /\ Rendered
    /\ RawText = Str(<<"a", "\n", "b">>)
    /\ Get(properties, "lineHeight") = Num(15)
    /\ bounds = Bounds(10, 20, 400)
    /\ Len(NamedCalls("fillText")) = 2
    /\ NamedCalls("fillText")[2].args[3] = N(92)

\* C6: every draw call of a render is issued at the same x: bounds.x for align
\* "left", bounds.x + bounds.width / 2 for "center", bounds.x + bounds.width for
\* "right", and bounds.x for any other align value.
C6_AnchorX ==
    Rendered =>
        LET align == Get(properties, "align")
            x == IF align = sCenter THEN Num(bounds.x.n + bounds.width.n \div 2)
                 ELSE IF align = sRight THEN Num(bounds.x.n + bounds.width.n)
                 ELSE bounds.x
        IN  \A i \in 1..Len(DrawCalls) : DrawCalls[i].args[2] = x

\* Centred in the bounds {x: 10, width: 400}: drawn at x = 210.
C6_Witness ==
    /\ Rendered
    /\ Get(properties, "align") = sCenter
    /\ bounds = Bounds(10, 20, 400)
    /\ Len(DrawCalls) > 0
    /\ DrawCalls[1].args[2] = N(210)

\* C7: for a non-empty text (strokeEnabled a boolean or unset, strokeWidth a
\* finite number or unset and so 2): every line gets its fillText call, in line
\* order; when strokeEnabled is true and strokeWidth > 0 each fillText call is
\* immediately preceded by a strokeText call with the same line, x and y; and
\* otherwise no strokeText call is issued at all.
C7_StrokeBeforeFill ==
    (/\ Rendered
     /\ TextIsNonEmptyString
     /\ (Unset("strokeEnabled") \/ Get(properties, "strokeEnabled").t = "boolean")
     /\ FiniteNumberOrUnset("strokeWidth")) =>
        LET stroking == /\ ~Unset("strokeEnabled")
                        /\ Get(properties, "strokeEnabled").b
                        /\ TenthsOf("strokeWidth", 20) > 0
            lines == LineFeeds(RawText.s) + 1
            fills == NamedCalls("fillText")
        IN  /\ ~threw
            /\ Len(fills) = lines
            /\ JoinLines([i \in 1..Len(fills) |-> fills[i].args[1].s]) = RawText.s
            /\ IF stroking
               THEN /\ Len(DrawCalls) = 2 * lines
                    /\ \A i \in 1..lines :
                           /\ DrawCalls[2 * i - 1].fn = "strokeText"
                           /\ DrawCalls[2 * i].fn = "fillText"
                           /\ DrawCalls[2 * i - 1].args = DrawCalls[2 * i].args
               ELSE NamedCalls("strokeText") = <<>>

C7_Witness ==
    /\ Rendered
    /\ Get(properties, "strokeEnabled") = Bool(TRUE)
    /\ RawText = Str(<<"a", "\n", "b">>)
    /\ Len(NamedCalls("strokeText")) = 2

---------------------------------------------------------------------------
(* C8: createDefault *)

\* The default of the descriptor of key k.
DefaultOf(k) ==
    TEXT_PROPERTIES[CHOOSE i \in 1..Len(TEXT_PROPERTIES) : TEXT_PROPERTIES[i].key = k].default

\* No two calls were handed the same mapping, and every mapping handed out
\* holds, apart from the keys its own caller has written, exactly the schema's
\* keys, each with its descriptor's default.
DefaultsKept ==
    \A c \in 1..Len(results) :
        /\ \A d \in 1..Len(results) : d # c => results[d] # results[c]
        /\ DOMAIN heap[results[c]] \ mutated[c] = SchemaKeys \ mutated[c]
        /\ \A k \in SchemaKeys \ mutated[c] : heap[results[c]][k] = DefaultOf(k)

\* A step changes the mapping of a call only when that call's own caller writes.
OnlyOwnWrites ==
    \A c \in 1..Len(results) :
        heap'[results[c]] # heap[results[c]] => mutated'[c] # mutated[c]

\* C8: createDefault() returns a mapping whose keys are exactly the schema's
\* keys, each with its descriptor's default; the mappings of two calls are value
\* equal and independent: a write by one caller changes no other call's mapping
\* and not what a later call returns.
C8_DefaultsIndependent == []DefaultsKept /\ [][OnlyOwnWrites]_vars

\* Two calls, the first caller has written, and the mappings now differ.
C8_Witness ==
    /\ Len(results) = 2
    /\ mutated[1] # {}
    /\ mutated[2] = {}
    /\ heap[results[1]] # heap[results[2]]
    /\ heap[results[2]] = createDefault

---------------------------------------------------------------------------
(* C9, C10: validate *)

Validated == op = "validate"

\* The violations validate returned with a given property.
ErrorsOn(k) == SelectSeq(ret[1].errors, LAMBDA e : e.property = k)

\* C9: validate(createDefault()) returns null.
C9_DefaultsValid ==
    (/\ Validated
     /\ DOMAIN properties = SchemaKeys
     /\ \A k \in SchemaKeys : properties[k] = DefaultOf(k)) =>
        ret[1].isNull

C9_Witness == Validated /\ properties = createDefault /\ ret[1].isNull

\* C10: validate returns exactly one violation with property text when the text
\* is not a string (a missing text included) and none when it is a string.
C10_TextViolation ==
    Validated =>
        Len(ErrorsOn("text")) = (IF RawText.t = "string" THEN 0 ELSE 1)

\* text: 42 over the defaults: one violation in all, on text.
C10_Witness ==
    /\ Validated
    /\ RawText = N(42)
    /\ ~ret[1].isNull
    /\ Len(ret[1].errors) = 1
    /\ ret[1].errors[1].property = "text"

---------------------------------------------------------------------------
(* C11, C12: the fontSize rule, and the three rules together *)

\* The fontSize is a number within [1, 1000], the ends included.  NaN is
\* within no range.
FontSizeInRange ==
    LET fontSize == Get(properties, "fontSize")
    IN  fontSize.t = "number" /\ fontSize.n >= 10 /\ fontSize.n <= 10000

\* C11: validate returns a violation with property fontSize exactly when the
\* fontSize is not a number or is a number outside [1, 1000]: none for 1, 1000
\* and the numbers between, one for 0, 1001, a negative number, a string, a
\* missing key.  The code returns none for NaN, which passes typeof and fails
\* both comparisons.
C11_FontSizeViolation ==
    Validated =>
        Len(ErrorsOn("fontSize")) = (IF FontSizeInRange THEN 0 ELSE 1)

\* The properties of the rules that fail, in the order text, fontSize, fontWeight.
FailedRules ==
    (IF RawText.t = "string" THEN <<>> ELSE <<"text">>)
        \o (IF FontSizeInRange THEN <<>> ELSE <<"fontSize">>)
        \o (IF Get(properties, "fontWeight") \in {s400, s700}
            THEN <<>> ELSE <<"fontWeight">>)

\* C12: validate returns null exactly when the text is a string, the fontSize a
\* number in [1, 1000] and the fontWeight the string "400" or "700"; otherwise
\* it returns a list that is not empty and holds exactly one violation for each
\* rule that failed, in the order text, fontSize, fontWeight.  The code returns
\* null, or a list without the fontSize violation, when the fontSize is NaN.
C12_RulesIndependent ==
    Validated =>
        /\ ret[1].isNull <=> FailedRules = <<>>
        /\ ~ret[1].isNull => Len(ret[1].errors) > 0
        /\ [i \in 1..Len(ret[1].errors) |-> ret[1].errors[i].property] = FailedRules

---------------------------------------------------------------------------
(* C13: the escaped element content *)

VectorRendered == op = "renderSVG"

eAmp == <<"&", "a", "m", "p", ";">>
eLt == <<"&", "l", "t", ";">>
eGt == <<"&", "g", "t", ";">>

StartsWith(cs, p) == Len(cs) >= Len(p) /\ SubSeq(cs, 1, Len(p)) = p

\* The text with each markup character replaced by its entity, in one pass.
RECURSIVE EachEscaped(_)
EachEscaped(cs) ==
    IF cs = <<>> THEN <<>>
    ELSE (CASE cs[1] = "&" -> eAmp
            [] cs[1] = "<" -> eLt
            [] cs[1] = ">" -> eGt
            [] OTHER -> <<cs[1]>>) \o EachEscaped(Tail(cs))

\* The content with each entity read back as its character, from the left.
RECURSIVE Unescape(_)
Unescape(cs) ==
    IF cs = <<>> THEN <<>>
    ELSE IF StartsWith(cs, eAmp) THEN <<"&">> \o Unescape(SubSeq(cs, 6, Len(cs)))
    ELSE IF StartsWith(cs, eLt) THEN <<"<">> \o Unescape(SubSeq(cs, 5, Len(cs)))
    ELSE IF StartsWith(cs, eGt) THEN <<">">> \o Unescape(SubSeq(cs, 5, Len(cs)))
    ELSE <<cs[1]>> \o Unescape(Tail(cs))

\* C13: for every text string, the content of the element renderSVG returns is
\* the text with each & replaced by &amp;, each < by &lt; and each > by &gt;,
\* no entity escaped twice: the content holds no < and no >, every & in it
\* starts one of the three entities, and un-escaping it gives the text back.
C13_EscapeRoundTrip ==
    (VectorRendered /\ RawText.t = "string") =>
        /\ ~threw
        /\ LET content == ret[1].content
           IN  /\ content = EachEscaped(RawText.s)
               /\ \A i \in 1..Len(content) :
                      /\ content[i] \notin {"<", ">"}
                      /\ content[i] = "&" =>
                             LET rest == SubSeq(content, i, Len(content))
                             IN  \/ StartsWith(rest, eAmp)
                                 \/ StartsWith(rest, eLt)
                                 \/ StartsWith(rest, eGt)
               /\ Unescape(content) = RawText.s

\* The text "<&lt" comes out as "&lt;&amp;lt".
C13_Witness ==
    /\ VectorRendered
    /\ RawText = Str(<<"<", "&", "l", "t">>)
    /\ ret[1].content = eLt \o eAmp \o <<"l", "t">>

---------------------------------------------------------------------------
(* C14: the anchor of the vector renderer against the raster renderer's *)

\* The x of the draw calls a raster render of the same properties and bounds
\* issues on a fresh surface.
RasterXs ==
    LET drawn == SelectSeq(renderText(properties, createMockCtx, bounds).calls,
                           LAMBDA c : c.fn \in {"strokeText", "fillText"})
    IN  [i \in 1..Len(drawn) |-> drawn[i].args[2]]

\* C14: renderSVG gives text-anchor start for align "left", middle for
\* "center", end for "right" and start for any other align value; and for a
\* non-empty text its x attribute is the x that a raster render of the same
\* properties and bounds passes to each of its draw calls.
C14_AnchorsAgree ==
    (VectorRendered /\ ~threw) =>
        LET align == Get(properties, "align")
        IN  /\ ret[1].textAnchor =
                   (IF align = sCenter THEN sMiddle.s
                    ELSE IF align = sRight THEN sEnd.s
                    ELSE sStart.s)
            /\ TextIsNonEmptyString =>
                   /\ Len(RasterXs) > 0
                   /\ \A i \in 1..Len(RasterXs) :
                          JsToString(RasterXs[i]) = ret[1].x

\* Right-aligned in the bounds {x: 10, width: 400}: text-anchor end at x = 410.
C14_Witness ==
    /\ VectorRendered
    /\ TextIsNonEmptyString
    /\ Get(properties, "align") = sRight
    /\ bounds = Bounds(10, 20, 400)
    /\ ret[1].textAnchor = sEnd.s
    /\ ret[1].x = <<"4", "1", "0">>

---------------------------------------------------------------------------
(* C17: the font stack of a family *)

\* The built-in fonts whose family is, character for character, the family.
BuiltIn(family) == {i \in 1..Len(BUILT_IN_FONTS) : BUILT_IN_FONTS[i].family = family}

\* C17: resolveFontStack returns, without failing, the quoted family followed
\* by the fallback chain of the category of the built-in font of exactly that
\* name, and followed by sans-serif for every other family string.
C17_FontStack ==
    op = "resolveFontStack" =>
        LET family == Get(properties, "fontFamily")
        IN  /\ ~threw
            /\ ret[1][1] = family.s
            /\ IF BuiltIn(family) = {} THEN ret[1][2] = "sans-serif"
               ELSE \A i \in BuiltIn(family) :
                        ret[1][2] = FONT_FALLBACKS[BUILT_IN_FONTS[i].category]

\* "Georgia" is built in and a serif.
C17_Witness ==
    /\ op = "resolveFontStack"
    /\ Get(properties, "fontFamily") = Str(<<"G", "e", "o", "r", "g", "i", "a">>)
    /\ ret[1] = <<<<"G", "e", "o", "r", "g", "i", "a">>, "Georgia, 'Times New Roman', serif">>

---------------------------------------------------------------------------
(* What the claims read off a tool call *)

\* The tools that write to a layer.
WritingTools == {"set_text", "apply_text_style", "set_text_shadow"}

\* The layerId the latest call was given.
Target == Get(tool.input, "layerId")

\* The latest call returned a result with the error flag set.
Failed == tool.result.isError = Bool(TRUE)

StoreCallNames == {"add", "updateProperties", "updateTransform"}

\* The calls of a given name among a sequence of context calls.
Named(ev, fn) == SelectSeq(ev, LAMBDA c : c.fn = fn)

\* The store holds a text layer under the id.
IsTextLayer(ls, id) == HasLayer(ls, id) /\ ls[id].type = sTextType

---------------------------------------------------------------------------
(* C15: a target that is missing or is not a text layer *)

\* A tool call that is given a layerId (for set_text: one that is not empty)
\* under which the store holds no layer, or a layer of another type, returns a
\* result with the error flag set, makes no call on the store, sends no
\* notification and leaves the store as it was.
BadTargetRejected ==
    (/\ ncalls' = ncalls + 1
     /\ tool'.name \in WritingTools
     /\ tool'.name = "set_text" => ToBoolean(Get(tool'.input, "layerId"))
     /\ ~IsTextLayer(layers, Get(tool'.input, "layerId"))) =>
        /\ tool'.result.isError = Bool(TRUE)
        /\ events' = <<>>
        /\ layers' = layers

\* C15: set_text with a layerId, apply_text_style and set_text_shadow, when the
\* target layer does not exist or is not of type "typography:text", return an
\* error result and, in that call, make no add, updateProperties or
\* updateTransform and emit no change notification.
C15_BadTargetRejected == [][BadTargetRejected]_vars

\* set_text on the layer of another type: an error, nothing called.
C15_Witness ==
    /\ tool.name = "set_text"
    /\ Target = sLayer2
    /\ HasLayer(layers, sLayer2)
    /\ layers[sLayer2].type = "filter:grain"
    /\ Failed
    /\ events = <<>>

---------------------------------------------------------------------------
(* C16: a patch that changes nothing *)

\* C16: apply_text_style given none of its style properties, and
\* set_text_shadow given none of enabled, color, blur, offsetX, offsetY, on an
\* existing text layer, return an error result, do not call updateProperties
\* and emit no change notification.  set_text_shadow has no such check: it
\* calls updateProperties with an empty patch, emits layer-updated and returns
\* a result without the error flag.
C16_EmptyPatchRejected ==
    (/\ tool.name \in {"apply_text_style", "set_text_shadow"}
     /\ IsTextLayer(layers, Target)
     /\ DOMAIN tool.input = {"layerId"}) =>
        /\ Failed
        /\ Named(events, "updateProperties") = <<>>
        /\ Named(events, "emitChange") = <<>>

---------------------------------------------------------------------------
(* C18: the change notification of a successful call *)

\* A successful call of a writing tool has made its store calls and then, as
\* its last call, sent one notification: layer-added when the store call was
\* an add, layer-updated when it was an update; set_text adds exactly when it
\* is given no layerId.  list_fonts has called nothing.
NotifiedOnce ==
    /\ (tool.name \in WritingTools /\ ~Failed) =>
           LET n == Len(events)
           IN  /\ Len(Named(events, "emitChange")) = 1
               /\ n >= 2
               /\ events[n].fn = "emitChange"
               /\ \A i \in 1..(n - 1) : events[i].fn \in StoreCallNames
               /\ events[n].args =
                      <<IF Named(events, "add") # <<>> THEN "layer-added"
                        ELSE "layer-updated">>
               /\ Named(events, "add") # <<>> <=>
                      (tool.name = "set_text" /\ ~ToBoolean(Target))
    /\ tool.name = "list_fonts" => (events = <<>> /\ ~Failed)

\* A list_fonts call leaves the store as it was.
ListFontsReadsOnly ==
    (ncalls' = ncalls + 1 /\ tool'.name = "list_fonts") => layers' = layers

\* C18: in any sequence of tool calls, each successful set_text,
\* apply_text_style or set_text_shadow call emits exactly one change
\* notification, after its store mutation: layer-added for a set_text call
\* that created a layer, layer-updated for a call that updated one; list_fonts
\* mutates nothing and emits nothing.
C18_OneNotification == []NotifiedOnce /\ [][ListFontsReadsOnly]_vars

\* A second call, set_text moving an existing layer: updateProperties,
\* updateTransform, then the one notification.
C18_Witness ==
    /\ ncalls = 2
    /\ tool.name = "set_text"
    /\ Len(events) = 3
    /\ events[1].fn = "updateProperties"
    /\ events[2].fn = "updateTransform"
    /\ events[3] = Call("emitChange", <<"layer-updated">>)

---------------------------------------------------------------------------
(* C19: set_text creates or updates *)

\* The style inputs of set_text that the input supplies.
SuppliedStyle(input) == {"fontSize", "fontFamily", "color", "align"} \cap DOMAIN input

\* A set_text call with a layerId that is not empty: the store is as it was,
\* nothing is added, every store call is on that layer, and a call that
\* succeeds patches the text and the style inputs supplied, and the x and y
\* supplied, if any, on the transform.
SetTextUpdatesOnly(input, ev) ==
    LET id == Get(input, "layerId")
        patched == Named(ev, "updateProperties")
        moved == Named(ev, "updateTransform")
    IN  /\ layers' = layers
        /\ Named(ev, "add") = <<>>
        /\ \A i \in 1..Len(ev) : ev[i].fn \in {"updateProperties", "updateTransform"} =>
               ev[i].args[1] = id
        /\ tool'.result.isError # Bool(TRUE) =>
               /\ Len(patched) = 1
               /\ patched[1].args[2] =
                      [k \in {"text"} \cup SuppliedStyle(input) |-> input[k]]
               /\ IF {"x", "y"} \cap DOMAIN input = {} THEN moved = <<>>
                  ELSE /\ Len(moved) = 1
                       /\ moved[1].args[2] =
                              [k \in {"x", "y"} \cap DOMAIN input |-> input[k]]

\* A set_text call without a layerId: one layer is added, of type
\* "typography:text", holding every schema key with its default except the
\* text and the style inputs supplied, at the x and y supplied or at 50; it is
\* put in the store under an id of its own and no layer of the store changes.
SetTextCreatesOne(input, ev) ==
    /\ Len(Named(ev, "add")) = 1
    /\ Named(ev, "updateProperties") = <<>>
    /\ Named(ev, "updateTransform") = <<>>
    /\ LET layer == Named(ev, "add")[1].args[1]
       IN  /\ layer.type = "typography:text"
           /\ DOMAIN layer.properties = SchemaKeys
           /\ \A k \in SchemaKeys :
                  layer.properties[k] =
                      (IF k \in {"text"} \cup SuppliedStyle(input) THEN input[k]
                       ELSE DefaultOf(k))
           /\ layer.transform.x = (IF "x" \in DOMAIN input THEN input.x ELSE N(50))
           /\ layer.transform.y = (IF "y" \in DOMAIN input THEN input.y ELSE N(50))
           /\ layer.id \notin DOMAIN layers
           /\ DOMAIN layers' = DOMAIN layers \cup {layer.id}
           /\ layers'[layer.id] = layer
           /\ \A id \in DOMAIN layers : layers'[id] = layers[id]

SetTextCreatesOrUpdates ==
    (ncalls' = ncalls + 1 /\ tool'.name = "set_text") =>
        IF ToBoolean(Get(tool'.input, "layerId"))
        THEN SetTextUpdatesOnly(tool'.input, events')
        ELSE SetTextCreatesOne(tool'.input, events')

\* C19: set_text with a layerId never adds a layer and only patches that layer
\* (the text, the fontSize, fontFamily, color and align supplied, and x and y
\* on the transform only when supplied); without a layerId it adds exactly one
\* layer of type "typography:text" whose properties hold every schema key, the
\* default but for the text and the style supplied, at the x and y supplied or
\* at (50, 50), and it updates no existing layer.
C19_CreateOrUpdate == [][SetTextCreatesOrUpdates]_vars

\* A layer created at x = 0 (supplied) and y = 50 (omitted), in red.
C19_Witness ==
    /\ tool.name = "set_text"
    /\ DOMAIN tool.input = {"text", "x", "color"}
    /\ Len(events) = 2
    /\ events[1].fn = "add"
    /\ events[1].args[1].transform.x = N(0)
    /\ events[1].args[1].transform.y = N(50)
    /\ events[1].args[1].properties.color = sRed
    /\ events[1].args[1].properties.text = sNewText
    /\ events[1].args[1].properties.fontSize = N(48)
    /\ HasLayer(layers, events[1].args[1].id)

====
